---- MODULE Spec2Model ----
(***************************************************************************)
(* psyst: matchmaking between a COMPAS population and a MESA grid.         *)
(* Model of MatchMaker.do_matchmake (src/psyst/matchmaking.py) and of the  *)
(* SIGINT path of src/psyst/__init__.py.                                   *)
(*                                                                         *)
(* Numbers.  The source computes with floats; the model computes with      *)
(* exact rationals <<n, d>> (d > 0, lowest terms).  Comparison-space       *)
(* values are integers: a log-transformed dimension holds the exponent k   *)
(* of the physical value 10^k.                                             *)
(*                                                                         *)
(* Dimensions.  The source matches four dimensions (m1i, m2i, porbi, ei).  *)
(* Its loops are generic over the dimension list; the model keeps two of   *)
(* the four, one log-transformed (m1i) and one linear (ei).                *)
(***************************************************************************)
EXTENDS Integers, Sequences, FiniteSets, TLC

VARIABLES
    interpolation_method,       \* self.interpolation_method
    compas_header,              \* compas_header: the column names of COMPASrun
    grid,                       \* grid, after np.log10 on the LOGKEYS axes
    mesa_rows,                  \* rows of MESArun, in the order the sorter emits equal keys
    data,                       \* data = self.compas_database.fetchall()
    pc,                         \* position in do_matchmake
    di,                         \* number of members of data already folded in
    ni,                         \* position in `for neigh in weighted_close_neighbours`
    binary_to_match,            \* local of the member loop
    closest_neighbour,          \* local of the member loop
    weighted_close_neighbours,  \* local of the member loop
    run_name,                   \* local: the run resolved last
    results,                    \* results["run_name"], results["weight"]
    db,                         \* the MESAweighted table: committed rows, rows of the open transaction
    wj,                         \* position in the insert loop
    error                       \* the exception that ended the pass, "none" otherwise

vars == <<interpolation_method, compas_header, grid, mesa_rows, data, pc, di, ni, binary_to_match,
          closest_neighbour, weighted_close_neighbours, run_name, results, db, wj, error>>

---------------------------------------------------------------------------
(* Bounds of the model *)

\* comparison-space values (axis samples, queries) range over 0..MaxVal
MaxVal == 3

\* at most MaxPop members in the population
MaxPop == 3

\* at most MaxCat rows in the catalogs of SpecResolve
MaxCat == 2

\* catalog coordinates of SpecResolve range over 0..MaxCatVal (comparison space)
MaxCatVal == 2

\* NZERO is 1e-15 in the source.  TLC's integers have 32 bits, so the model takes
\* 1/NZeroInv.  Every non-zero distance the bounded grids produce is at least
\* 1/MaxVal, far above it, so each branch of the source is taken on the same inputs.
NZeroInv == 100

---------------------------------------------------------------------------
(* Exact rational arithmetic *)

RECURSIVE GCD(_, _)
GCD(a, b) == IF b = 0 THEN a ELSE GCD(b, a % b)

Abs(x) == IF x < 0 THEN -x ELSE x

Rat(n, d) ==
    LET s == IF d < 0 THEN -1 ELSE 1
        g == GCD(Abs(n), Abs(d))
    IN  <<(s * n) \div g, (s * d) \div g>>

RatInt(k) == <<k, 1>>

RatMul(a, b) ==
    LET g1 == GCD(Abs(a[1]), b[2])
        g2 == GCD(Abs(b[1]), a[2])
    IN  Rat((a[1] \div g1) * (b[1] \div g2), (a[2] \div g2) * (b[2] \div g1))

RatInv(a) == Rat(a[2], a[1])

RatDiv(a, b) == RatMul(a, RatInv(b))

RatAdd(a, b) ==
    LET g == GCD(a[2], b[2])
    IN  Rat(a[1] * (b[2] \div g) + b[1] * (a[2] \div g), (a[2] \div g) * b[2])

RatSub(a, b) == RatAdd(a, <<-b[1], b[2]>>)

RatAbs(a) == <<Abs(a[1]), a[2]>>

RatLt(a, b) == a[1] * b[2] < b[1] * a[2]

RECURSIVE RatSum(_)
RatSum(s) == IF s = <<>> THEN RatInt(0) ELSE RatAdd(Head(s), RatSum(Tail(s)))

---------------------------------------------------------------------------
(* Constants of do_matchmake *)

NZERO == <<1, NZeroInv>>

LOGKEYS == {"m1i"}

names_to_match == <<"companion_mass", "e_pm">>

names_on_mesa == <<"m1i", "ei">>

headers_mapping == [k \in {names_to_match[i] : i \in 1..Len(names_to_match)} |->
                      names_on_mesa[CHOOSE i \in 1..Len(names_to_match) : names_to_match[i] = k]]

Dims == {names_on_mesa[i] : i \in 1..Len(names_on_mesa)}

---------------------------------------------------------------------------
(* Python sequences: 0-based indexing, negative indices count from the end *)

ValidIndex(s, i) == -Len(s) <= i /\ i < Len(s)

PyIndex(s, i) == IF i >= 0 THEN s[i + 1] ELSE s[Len(s) + i + 1]

\* np.argmin scans from index 0 and moves to a later index only on a strictly smaller value
RECURSIVE argmin_scan(_, _, _, _)
argmin_scan(axis, val, i, best) ==
    IF i >= Len(axis) THEN best
    ELSE argmin_scan(axis, val, i + 1,
             IF Abs(axis[i + 1] - val) < Abs(axis[best + 1] - val) THEN i ELSE best)

\* a scan that also moves on an equal value: the last index holding the minimum
RECURSIVE argmin_scan_last(_, _, _, _)
argmin_scan_last(axis, val, i, best) ==
    IF i >= Len(axis) THEN best
    ELSE argmin_scan_last(axis, val, i + 1,
             IF Abs(axis[i + 1] - val) <= Abs(axis[best + 1] - val) THEN i ELSE best)

argmin_abs_last(axis, val) == argmin_scan_last(axis, val, 1, 0)

\* np.argmin(np.abs(axis - val))
argmin_abs(axis, val) == argmin_scan(axis, val, 1, 0)

---------------------------------------------------------------------------
(* Coordinate transforms *)

RECURSIVE Pow10(_)
Pow10(k) == IF k = 0 THEN 1 ELSE 10 * Pow10(k - 1)

\* np.log10 on the powers of ten the model draws physical values from
Log10(x) == CHOOSE k \in 0..(MaxVal + 1) : Pow10(k) = x

\* a binary (or a neighbour) is [keys |-> the dict's keys in insertion order, val |-> its values]
TOLOG(binary) ==
    [binary EXCEPT !.val = [par \in DOMAIN binary.val |->
        IF par \in LOGKEYS THEN Log10(binary.val[par]) ELSE binary.val[par]]]

\* float('{:.2f}'.format(10**val)): on the integral exponents of the model 10**val is an
\* integer and the two-decimal formatting keeps it
TOLIN(binary) ==
    [binary EXCEPT !.val = [par \in DOMAIN binary.val |->
        IF par \in LOGKEYS THEN Pow10(binary.val[par]) ELSE binary.val[par]]]

---------------------------------------------------------------------------
(* Neighbor locator *)

\* nearest_neighbour(binary, grid): per key of the binary, the sample nearest the value
nearest_neighbour(binary, g) ==
    [keys   |-> binary.keys,
     val    |-> [par \in DOMAIN binary.val |->
                    PyIndex(g[par], argmin_abs(g[par], binary.val[par]))],
     weight |-> RatInt(1)]

\* the index decremented also when the value equals the nearest sample
idx_neigh_le(binary, g) ==
    [par \in DOMAIN binary.val |->
        LET a == argmin_abs(g[par], binary.val[par])
        IN  IF binary.val[par] <= PyIndex(g[par], a) THEN a - 1 ELSE a]

\* lines 213-217: index of the nearest sample, one less when the value lies below it
idx_neigh(binary, g) ==
    [par \in DOMAIN binary.val |->
        LET a == argmin_abs(g[par], binary.val[par])
        IN  IF binary.val[par] < PyIndex(g[par], a) THEN a - 1 ELSE a]

\* itertools.product(*(np.arange(2) for i in range(DIM))): last position varies fastest
RECURSIVE mesh(_)
mesh(DIM) ==
    IF DIM = 0 THEN << <<>> >>
    ELSE LET m == mesh(DIM - 1)
         IN  [i \in 1..(2 * Len(m)) |->
                IF i <= Len(m) THEN <<0>> \o m[i] ELSE <<1>> \o m[i - Len(m)]]

\* the subscripts lines 229-231 evaluate for corner idx: all must address a sample
CornerInRange(binary, g, idxn, idx) ==
    \A j \in 1..Len(binary.keys) :
        LET par == binary.keys[j]
        IN  /\ j <= Len(idx)
            /\ ValidIndex(g[par], idxn[par] + idx[j])
            /\ ValidIndex(g[par], idxn[par] + 1)
            /\ ValidIndex(g[par], idxn[par])

\* lines 230-231: num_par / den_par for key number j of the binary at corner idx
frac_par(binary, g, idxn, idx, j) ==
    LET par     == binary.keys[j]
        num_par == Abs(binary.val[par] - PyIndex(g[par], idxn[par] + idx[j]))
        den_par == PyIndex(g[par], idxn[par] + 1) - PyIndex(g[par], idxn[par])
    IN  Rat(num_par, den_par)

\* lines 232-237: the factor a key contributes, and whether it is a numpy float
\* (num_par/den_par is np.float64; the literals 1 and NZERO leave a Python float)
factor_par(binary, g, idxn, idx, j) ==
    LET par     == binary.keys[j]
        num_par == Abs(binary.val[par] - PyIndex(g[par], idxn[par] + idx[j]))
        f       == frac_par(binary, g, idxn, idx, j)
    IN  IF RatLt(RatAbs(RatSub(f, RatInt(1))), NZERO) THEN [v |-> RatInt(1), np |-> FALSE]
        ELSE IF RatLt(RatInt(num_par), NZERO) THEN [v |-> NZERO, np |-> FALSE]
        ELSE [v |-> f, np |-> TRUE]

\* lines 227-237: weight = 1.0, then weight *= factor for keys 1..j
RECURSIVE corner_weight(_, _, _, _, _)
corner_weight(binary, g, idxn, idx, j) ==
    IF j = 0 THEN [v |-> RatInt(1), np |-> FALSE]
    ELSE LET w == corner_weight(binary, g, idxn, idx, j - 1)
             f == factor_par(binary, g, idxn, idx, j)
         IN  [v |-> RatMul(w.v, f.v), np |-> w.np \/ f.np]

\* line 239: weights.append(1/weight)
raw_weight(binary, g, idxn, idx) ==
    LET w == corner_weight(binary, g, idxn, idx, Len(binary.keys))
    IN  [v |-> RatInv(w.v), np |-> w.np]

\* the weights left as they are, without the division by their sum
Normalise_raw(weights) == [i \in 1..Len(weights) |-> weights[i].v]

\* line 241: weights /= sum(weights)
Normalise(weights) ==
    LET total == RatSum([i \in 1..Len(weights) |-> weights[i].v])
    IN  [i \in 1..Len(weights) |-> RatDiv(weights[i].v, total)]

\* weighted_neighbours(binary, grid).  IndexError: a subscript past the end of an axis.
\* TypeError: every weight is a Python float, so sum(weights) is one and the list
\* `weights` has no in-place division by it.
weighted_neighbours(binary, g) ==
    LET idxn == idx_neigh(binary, g)
        DIM  == Cardinality(DOMAIN g)
        m    == mesh(DIM)
    IN  IF \E i \in 1..Len(m) : ~CornerInRange(binary, g, idxn, m[i])
        THEN [status |-> "IndexError", neighs |-> <<>>]
        ELSE LET weights == [i \in 1..Len(m) |-> raw_weight(binary, g, idxn, m[i])]
             IN  IF \A i \in 1..Len(m) : ~weights[i].np
                 THEN [status |-> "TypeError", neighs |-> <<>>]
                 ELSE LET nw == Normalise(weights)
                      IN  [status |-> "ok",
                           neighs |-> [i \in 1..Len(m) |->
                              [keys   |-> binary.keys,
                               val    |-> [par \in DOMAIN binary.val |->
                                   LET j == CHOOSE k \in 1..Len(binary.keys) : binary.keys[k] = par
                                   IN  PyIndex(g[par], idxn[par] + m[i][j])],
                               weight |-> nw[i]]]]

---------------------------------------------------------------------------
(* Grid loading and the member's binary *)

\* lines 256-261: every axis becomes an array, the LOGKEYS axes are log-transformed
LoadGrid(yaml) ==
    [key \in DOMAIN yaml |->
        IF key \in LOGKEYS THEN [i \in 1..Len(yaml[key]) |-> Log10(yaml[key][i])]
        ELSE yaml[key]]

\* lines 282-288: the column of each name in the header, -1 when the header lacks it
keyword_index(header) ==
    [name \in {names_to_match[i] : i \in 1..Len(names_to_match)} |->
        IF \E k \in 1..Len(header) : header[k] = name
        THEN (CHOOSE k \in 1..Len(header) :
                 header[k] = name /\ \A h \in 1..(k - 1) : header[h] # name) - 1
        ELSE -1]

\* lines 301-306: the matched columns of the datum, keyed by their MESA names, in column order
RECURSIVE BinaryKeys(_, _, _)
BinaryKeys(datum, header, k) ==
    IF k > Len(datum) THEN <<>>
    ELSE LET ki    == keyword_index(header)
             named == SelectSeq(names_to_match, LAMBDA name : ki[name] = k - 1)
         IN  [i \in 1..Len(named) |-> headers_mapping[named[i]]] \o BinaryKeys(datum, header, k + 1)

BuildBinary(datum, header) ==
    LET ki   == keyword_index(header)
        keys == BinaryKeys(datum, header, 1)
    IN  [keys |-> keys,
         val  |-> [par \in {keys[i] : i \in 1..Len(keys)} |->
                     LET name == CHOOSE n \in DOMAIN headers_mapping :
                                     headers_mapping[n] = par /\ ki[n] >= 0
                     IN  datum[ki[name] + 1]]]

---------------------------------------------------------------------------
(* Run resolver *)

\* lines 366-370: ABS(name - v)*ABS(name - v) summed over names_on_mesa
RECURSIVE dist(_, _, _)
dist(row, neigh, j) ==
    IF j = 0 THEN 0
    ELSE LET name == names_on_mesa[j]
         IN  Abs(row[name] - neigh.val[name]) * Abs(row[name] - neigh.val[name])
             + dist(row, neigh, j - 1)

\* ORDER BY dist DESC: rows of equal dist keep the order the sorter receives them in
RECURSIVE InsertDesc(_, _, _)
InsertDesc(sorted, row, neigh) ==
    IF sorted = <<>> THEN <<row>>
    ELSE IF dist(Head(sorted), neigh, Len(names_on_mesa)) >= dist(row, neigh, Len(names_on_mesa))
         THEN <<Head(sorted)>> \o InsertDesc(Tail(sorted), row, neigh)
         ELSE <<row>> \o sorted

RECURSIVE OrderByDistDesc(_, _)
OrderByDistDesc(rows, neigh) ==
    IF rows = <<>> THEN <<>>
    ELSE InsertDesc(OrderByDistDesc(SubSeq(rows, 1, Len(rows) - 1), neigh), rows[Len(rows)], neigh)

\* the first row of the result instead of the last
closest_value_first(rows, neigh) ==
    LET fetchall == OrderByDistDesc(rows, neigh)
    IN  IF fetchall = <<>> THEN [status |-> "IndexError", run_name |-> ""]
        ELSE [status |-> "ok", run_name |-> fetchall[1].run_name]

\* an empty result answered with a run called "None" instead of an exception
closest_value_none(rows, neigh) ==
    LET fetchall == OrderByDistDesc(rows, neigh)
    IN  IF fetchall = <<>> THEN [status |-> "ok", run_name |-> "None"]
        ELSE [status |-> "ok", run_name |-> fetchall[Len(fetchall)].run_name]

\* lines 373-377: fetchall()[-1]; IndexError on an empty result
closest_value(rows, neigh) ==
    LET fetchall == OrderByDistDesc(rows, neigh)
    IN  IF fetchall = <<>> THEN [status |-> "IndexError", run_name |-> ""]
        ELSE [status |-> "ok", run_name |-> fetchall[Len(fetchall)].run_name]

\* lines 366-370: the SQL string reads neigh[name] for every name of names_on_mesa
HasEveryName(neigh) ==
    \A j \in 1..Len(names_on_mesa) : names_on_mesa[j] \in DOMAIN neigh.val

\* lines 366-377: KeyError while the string is built, else the query and its last row
resolve_run(rows, neigh) ==
    IF ~HasEveryName(neigh) THEN [status |-> "KeyError", run_name |-> ""]
    ELSE closest_value(rows, neigh)

---------------------------------------------------------------------------
(* Aggregator *)

\* a membership test that never finds the run
InSeq_never(x, s) == FALSE

\* lines 386 and 354: run_name in results["run_name"]
InSeq(x, s) == \E i \in 1..Len(s) : s[i] = x

\* lines 391-393: the loop compares run_name with the literal "name", so it leaves k at
\* the last index unless the run is called "name"
LoopK(names, run) == IF run = "name" THEN 0 ELSE Len(names) - 1

\* lines 386-394 (and 354-362 with weight 1)
Accumulate(res, run, weight) ==
    IF ~InSeq(run, res.run_name)
    THEN [run_name |-> Append(res.run_name, run), weight |-> Append(res.weight, weight)]
    ELSE LET k == LoopK(res.run_name, run)
         IN  [res EXCEPT !.weight[k + 1] = RatAdd(@, weight)]

---------------------------------------------------------------------------
(* Output sink: sqlite3 connection with its implicit transaction *)

\* a connection in autocommit mode: the row is persisted at once
ExecuteInsert_autocommit(d, row) == [d EXCEPT !.committed = Append(@, row)]

\* c.execute(INSERT ...): the row joins the open transaction
ExecuteInsert(d, row) == [d EXCEPT !.pending = Append(@, row)]

\* conn.commit()
CommitDb(d) == [committed |-> d.committed \o d.pending, pending |-> <<>>]

\* the process exits with the transaction open: it is rolled back
ExitDb(d) == [d EXCEPT !.pending = <<>>]

---------------------------------------------------------------------------
(* Inputs of the bounded model *)

\* the strictly ascending axes with at least 2 samples over 0..MaxVal
AxisOf(S) ==
    CHOOSE a \in [1..Cardinality(S) -> S] : \A i \in 1..(Cardinality(S) - 1) : a[i] < a[i + 1]

Axes == {AxisOf(S) : S \in {T \in SUBSET (0..MaxVal) : Cardinality(T) >= 2}}

\* a binary holding every dimension, keys in the order of names_on_mesa
Binary(val) == [keys |-> names_on_mesa, val |-> val]

NoBinary == [keys |-> <<>>, val |-> <<>>]

NoNeighbour == [keys |-> <<>>, val |-> <<>>, weight |-> RatInt(0)]

NoNeighbours == [status |-> "none", neighs |-> <<>>]

NoResults == [run_name |-> <<>>, weight |-> <<>>]

NoDb == [committed |-> <<>>, pending |-> <<>>]

---------------------------------------------------------------------------
(* SpecNeigh: the two neighbour functions applied to every grid and query *)

InitNeigh ==
    /\ compas_header = names_to_match
    /\ grid \in [Dims -> Axes]
    /\ binary_to_match \in {Binary(v) : v \in [Dims -> 0..MaxVal]}
    /\ pc = "call"
    /\ interpolation_method = "nearest_neighbour"
    /\ mesa_rows = <<>>
    /\ data = <<>>
    /\ di = 0
    /\ ni = 0
    /\ closest_neighbour = NoNeighbour
    /\ weighted_close_neighbours = NoNeighbours
    /\ run_name = ""
    /\ results = NoResults
    /\ db = NoDb
    /\ wj = 0
    /\ error = "none"

CallNearest ==
    /\ pc = "call"
    /\ closest_neighbour' = nearest_neighbour(binary_to_match, grid)
    /\ pc' = "nearest"
    /\ UNCHANGED <<interpolation_method, compas_header, grid, mesa_rows, data, di, ni, binary_to_match,
                   weighted_close_neighbours, run_name, results, db, wj, error>>

CallWeighted ==
    /\ pc = "call"
    /\ weighted_close_neighbours' = weighted_neighbours(binary_to_match, grid)
    /\ pc' = "weighted"
    /\ UNCHANGED <<interpolation_method, compas_header, grid, mesa_rows, data, di, ni, binary_to_match,
                   closest_neighbour, run_name, results, db, wj, error>>

NextNeigh == CallNearest \/ CallWeighted

SpecNeigh == InitNeigh /\ [][NextNeigh]_vars

---------------------------------------------------------------------------
(* Spec: one matchmaking pass, with SIGINT arriving between any two steps *)

\* interpolation_method: "nearest_neighbour", or anything else for the weighted branch
Methods == {"nearest_neighbour", "weighted_neighbours"}

\* the None object, which start() passes when the configuration lacks the key
None == "<None>"

\* core.config.get("interpolation_method"): absent, empty, or a method
ConfigMethods == {None, ""} \cup Methods

\* grid files, in physical units
PassYamlGrids ==
    { [m1i |-> <<10, 1000>>, ei |-> <<1, 3>>],
      [m1i |-> <<1, 10, 1000>>, ei |-> <<0, 3>>] }

\* rows of COMPASrun (companion_mass, e_pm): inside a cell, on a sample, below the first
\* sample, on the last sample, on a sample of every axis
PassMembers == { <<100, 2>>, <<10, 2>>, <<1, 2>>, <<100, 3>>, <<10, 1>> }

CatA ==
    << [run_name |-> "run_a", m1i |-> 10, ei |-> 1],
       [run_name |-> "run_b", m1i |-> 10, ei |-> 3],
       [run_name |-> "run_c", m1i |-> 1000, ei |-> 2] >>

CatB ==
    << [run_name |-> "name", m1i |-> 10, ei |-> 1],
       [run_name |-> "run_b", m1i |-> 1000, ei |-> 0],
       [run_name |-> "run_c", m1i |-> 1000, ei |-> 2] >>

PassCatalogs == { <<>>, CatA, CatB }

Populations == UNION {[1..n -> PassMembers] : n \in 0..MaxPop}

Init ==
    /\ compas_header = names_to_match
    /\ interpolation_method \in ConfigMethods
    /\ grid \in {LoadGrid(y) : y \in PassYamlGrids}
    /\ mesa_rows \in PassCatalogs
    /\ data \in Populations
    /\ pc = "init"
    /\ di = 0
    /\ ni = 0
    /\ binary_to_match = NoBinary
    /\ closest_neighbour = NoNeighbour
    /\ weighted_close_neighbours = NoNeighbours
    /\ run_name = ""
    /\ results = NoResults
    /\ db = NoDb
    /\ wj = 0
    /\ error = "none"

\* MatchMaker.__init__: before the step interpolation_method holds the argument;
\* len() of the argument is taken first, and None has no len()
Construct ==
    /\ pc = "init"
    /\ IF interpolation_method = None
       THEN /\ pc' = "aborted"
            /\ error' = "TypeError"
            /\ interpolation_method' = interpolation_method
       ELSE /\ pc' = "loop"
            /\ error' = error
            /\ interpolation_method' =
                  IF interpolation_method = "" THEN "nearest_neighbour"
                  ELSE interpolation_method
    /\ UNCHANGED <<compas_header, grid, mesa_rows, data, di, ni, binary_to_match,
                   closest_neighbour, weighted_close_neighbours, run_name, results, db, wj>>

\* lines 299-324: the member's binary and its neighbours under both strategies
MatchMember ==
    /\ pc = "loop"
    /\ di < Len(data)
    /\ \E b \in {TOLOG(BuildBinary(data[di + 1], compas_header))} :
       \E cn \in {TOLIN(nearest_neighbour(b, grid))} :
       \E wn \in {weighted_neighbours(b, grid)} :
           /\ closest_neighbour' = cn
           /\ IF wn.status = "ok"
              THEN /\ weighted_close_neighbours' =
                         [wn EXCEPT !.neighs = [k \in 1..Len(wn.neighs) |-> TOLIN(wn.neighs[k])]]
                   /\ binary_to_match' = TOLIN(b)
                   /\ pc' = "credit"
                   /\ error' = error
              ELSE /\ weighted_close_neighbours' = wn
                   /\ binary_to_match' = b
                   /\ pc' = "aborted"
                   /\ error' = wn.status
    /\ ni' = 0
    /\ UNCHANGED <<interpolation_method, compas_header, grid, mesa_rows, data, di, run_name, results, db, wj>>

\* lines 328-362: resolve the nearest neighbour and credit its run with 1
CreditNearest ==
    /\ pc = "credit"
    /\ interpolation_method = "nearest_neighbour"
    /\ LET cv == resolve_run(mesa_rows, closest_neighbour)
       IN  IF cv.status = "ok"
           THEN /\ run_name' = cv.run_name
                /\ results' = Accumulate(results, cv.run_name, RatInt(1))
                /\ di' = di + 1
                /\ pc' = "loop"
                /\ error' = error
           ELSE /\ pc' = "aborted"
                /\ error' = cv.status
                /\ UNCHANGED <<run_name, results, di>>
    /\ UNCHANGED <<interpolation_method, compas_header, grid, mesa_rows, data, ni, binary_to_match,
                   closest_neighbour, weighted_close_neighbours, db, wj>>

\* lines 365-394, one turn of the loop: resolve a corner and credit its run with the weight
CreditWeighted ==
    /\ pc = "credit"
    /\ interpolation_method # "nearest_neighbour"
    /\ ni < Len(weighted_close_neighbours.neighs)
    /\ LET neigh == weighted_close_neighbours.neighs[ni + 1]
           cv    == resolve_run(mesa_rows, neigh)
       IN  IF cv.status = "ok"
           THEN /\ run_name' = cv.run_name
                /\ results' = Accumulate(results, cv.run_name, neigh.weight)
                /\ ni' = ni + 1
                /\ IF ni + 1 = Len(weighted_close_neighbours.neighs)
                   THEN di' = di + 1 /\ pc' = "loop"
                   ELSE di' = di /\ pc' = pc
                /\ error' = error
           ELSE /\ pc' = "aborted"
                /\ error' = cv.status
                /\ UNCHANGED <<run_name, results, di, ni>>
    /\ UNCHANGED <<interpolation_method, compas_header, grid, mesa_rows, data, binary_to_match,
                   closest_neighbour, weighted_close_neighbours, db, wj>>

\* lines 396-403: connect and create the table
OpenSink ==
    /\ pc = "loop"
    /\ di = Len(data)
    /\ pc' = "write"
    /\ wj' = 0
    /\ UNCHANGED <<interpolation_method, compas_header, grid, mesa_rows, data, di, ni, binary_to_match,
                   closest_neighbour, weighted_close_neighbours, run_name, results, db, error>>

\* lines 405-409, one turn of the loop
InsertRow ==
    /\ pc = "write"
    /\ wj < Len(results.run_name)
    /\ db' = ExecuteInsert(db, <<results.run_name[wj + 1], results.weight[wj + 1]>>)
    /\ wj' = wj + 1
    /\ UNCHANGED <<interpolation_method, compas_header, grid, mesa_rows, data, pc, di, ni, binary_to_match,
                   closest_neighbour, weighted_close_neighbours, run_name, results, error>>

\* line 411
Commit ==
    /\ pc = "write"
    /\ wj = Len(results.run_name)
    /\ db' = CommitDb(db)
    /\ pc' = "close"
    /\ UNCHANGED <<interpolation_method, compas_header, grid, mesa_rows, data, di, ni, binary_to_match,
                   closest_neighbour, weighted_close_neighbours, run_name, results, wj, error>>

\* line 412
Close ==
    /\ pc = "close"
    /\ pc' = "done"
    /\ UNCHANGED <<interpolation_method, compas_header, grid, mesa_rows, data, di, ni, binary_to_match,
                   closest_neighbour, weighted_close_neighbours, run_name, results, db, wj, error>>

\* __signal_handler -> end -> sys.exit(0): SystemExit unwinds do_matchmake wherever it is
Interrupt ==
    /\ pc \in {"loop", "credit", "write", "close"}
    /\ pc' = "aborted"
    /\ error' = "SystemExit"
    /\ db' = ExitDb(db)
    /\ UNCHANGED <<interpolation_method, compas_header, grid, mesa_rows, data, di, ni, binary_to_match,
                   closest_neighbour, weighted_close_neighbours, run_name, results, wj>>

Next ==
    \/ Construct
    \/ MatchMember
    \/ CreditNearest
    \/ CreditWeighted
    \/ OpenSink
    \/ InsertRow
    \/ Commit
    \/ Close
    \/ Interrupt

Spec == Init /\ [][Next]_vars

---------------------------------------------------------------------------
(* SpecHeader: the pass over populations whose header may misname a dimension column *)

\* headers of COMPASrun: the declared one, e_pm misnamed, companion_mass misnamed
Headers ==
    { <<"companion_mass", "e_pm">>,
      <<"companion_mass", "ecc_pm">>,
      <<"mass_companion", "e_pm">> }

InitHeader ==
    /\ compas_header \in Headers
    /\ interpolation_method \in Methods
    /\ grid \in {LoadGrid(y) : y \in PassYamlGrids}
    /\ mesa_rows \in PassCatalogs
    /\ data \in Populations
    /\ pc = "init"
    /\ di = 0
    /\ ni = 0
    /\ binary_to_match = NoBinary
    /\ closest_neighbour = NoNeighbour
    /\ weighted_close_neighbours = NoNeighbours
    /\ run_name = ""
    /\ results = NoResults
    /\ db = NoDb
    /\ wj = 0
    /\ error = "none"

SpecHeader == InitHeader /\ [][Next]_vars

---------------------------------------------------------------------------
(* The member loop as a function of the population, lines 299-394 *)

\* lines 365-394: credit the neighbours from position k on
RECURSIVE CreditAll(_, _, _, _)
CreditAll(res, neighs, rows, k) ==
    IF k > Len(neighs) THEN [status |-> "ok", results |-> res]
    ELSE LET cv == resolve_run(rows, neighs[k])
         IN  IF cv.status # "ok" THEN [status |-> cv.status, results |-> res]
             ELSE CreditAll(Accumulate(res, cv.run_name, neighs[k].weight), neighs, rows, k + 1)

\* one turn of the member loop
FoldMember(res, datum, method, g, rows) ==
    LET b  == TOLOG(BuildBinary(datum, compas_header))
        cn == TOLIN(nearest_neighbour(b, g))
        wn == weighted_neighbours(b, g)
    IN  IF wn.status # "ok" THEN [status |-> wn.status, results |-> res]
        ELSE IF method = "nearest_neighbour" THEN CreditAll(res, <<cn>>, rows, 1)
        ELSE CreditAll(res, [k \in 1..Len(wn.neighs) |-> TOLIN(wn.neighs[k])], rows, 1)

\* the loop over data, stopped by the first exception
RECURSIVE PassResult(_, _, _, _, _)
PassResult(res, members, method, g, rows) ==
    IF members = <<>> THEN [status |-> "ok", results |-> res]
    ELSE LET r == FoldMember(res, Head(members), method, g, rows)
         IN  IF r.status # "ok" THEN r
             ELSE PassResult(r.results, Tail(members), method, g, rows)

---------------------------------------------------------------------------
(* SpecResolve: run resolution applied to every coordinate and catalog *)

RunNames == <<"run_a", "run_b", "run_c", "run_d">>

\* catalogs of at most MaxCat runs; the run at position i is called RunNames[i]
CatalogCoords == [m1i : {Pow10(v) : v \in 0..MaxCatVal}, ei : 0..MaxCatVal]

ResolveCatalogs ==
    UNION {{[i \in 1..n |-> [run_name |-> RunNames[i], m1i |-> c[i].m1i, ei |-> c[i].ei]] :
               c \in [1..n -> CatalogCoords]} : n \in 0..MaxCat}

\* coordinates in physical units, as TOLIN leaves a neighbour
Coordinates ==
    {[keys |-> names_on_mesa, val |-> [m1i |-> Pow10(a), ei |-> e], weight |-> RatInt(1)] :
        a \in 0..MaxVal, e \in 0..MaxVal}

InitResolve ==
    /\ compas_header = names_to_match
    /\ mesa_rows \in ResolveCatalogs
    /\ closest_neighbour \in Coordinates
    /\ pc = "resolve"
    /\ interpolation_method = "nearest_neighbour"
    /\ grid = <<>>
    /\ data = <<>>
    /\ di = 0
    /\ ni = 0
    /\ binary_to_match = NoBinary
    /\ weighted_close_neighbours = NoNeighbours
    /\ run_name = ""
    /\ results = NoResults
    /\ db = NoDb
    /\ wj = 0
    /\ error = "none"

\* lines 329-340: the query, fetchall()[-1], run_name = closest_value[0]
CallResolve ==
    /\ pc = "resolve"
    /\ \E cv \in {resolve_run(mesa_rows, closest_neighbour)} :
          IF cv.status = "ok"
          THEN run_name' = cv.run_name /\ pc' = "resolved" /\ error' = error
          ELSE run_name' = run_name /\ pc' = "aborted" /\ error' = cv.status
    /\ UNCHANGED <<interpolation_method, compas_header, grid, mesa_rows, data, di, ni, binary_to_match,
                   closest_neighbour, weighted_close_neighbours, results, db, wj>>

NextResolve == CallResolve

SpecResolve == InitResolve /\ [][NextResolve]_vars

---------------------------------------------------------------------------
(* Properties *)

\* the accumulated weight of run r in res (r occurs in res.run_name)
ValueOf(res, r) == res.weight[CHOOSE i \in 1..Len(res.run_name) : res.run_name[i] = r]

NamesOf(res) == {res.run_name[i] : i \in 1..Len(res.run_name)}

\* the WeightedResult as a mapping
MappingOf(res) == [r \in NamesOf(res) |-> ValueOf(res, r)]

\* a step of Spec that credits a run, and the weight it credits
CreditStep == pc = "credit" /\ pc' \in {"credit", "loop"}

CreditedWeight ==
    IF interpolation_method = "nearest_neighbour" THEN RatInt(1)
    ELSE weighted_close_neighbours.neighs[ni + 1].weight

\* C1: crediting (run, weight) inserts the run with that weight when it is new, and
\* otherwise adds the weight to that run's value and leaves every other run's value alone.
C1_AccumulatePerRun ==
    [][CreditStep =>
         /\ run_name' \in NamesOf(results')
         /\ IF run_name' \in NamesOf(results)
            THEN ValueOf(results', run_name') = RatAdd(ValueOf(results, run_name'), CreditedWeight)
            ELSE ValueOf(results', run_name') = CreditedWeight
         /\ \A r \in NamesOf(results) \ {run_name'} : ValueOf(results', r) = ValueOf(results, r)
      ]_vars

\* C2: the final mapping of a completed pass is the one the pass yields over every
\* permutation of the population.
C2_OrderIndependent ==
    pc = "done" =>
        \A f \in Permutations(1..Len(data)) :
            LET r == PassResult(NoResults, [i \in 1..Len(data) |-> data[f[i]]],
                                interpolation_method, grid, mesa_rows)
            IN  r.status = "ok" /\ MappingOf(r.results) = MappingOf(results)

\* C3: under the weighted strategy, between members and after the loop, the weights of
\* the result sum to the number of members folded in.
C3_Conservation ==
    (interpolation_method # "nearest_neighbour" /\ pc \in {"loop", "write", "close", "done"})
        => RatSum(results.weight) = RatInt(di)

C3_Witness ==
    /\ interpolation_method # "nearest_neighbour"
    /\ pc = "done"
    /\ di >= 2
    /\ Len(results.run_name) >= 2

RECURSIVE Pow2(_)
Pow2(n) == IF n = 0 THEN 1 ELSE 2 * Pow2(n - 1)

\* C4: the weighted strategy returns 2^D neighbours whose weights sum to 1, for every
\* query and grid.
C4_CornersSumToOne ==
    pc = "weighted" =>
        /\ weighted_close_neighbours.status = "ok"
        /\ Len(weighted_close_neighbours.neighs) = Pow2(Cardinality(DOMAIN grid))
        /\ RatSum([i \in 1..Len(weighted_close_neighbours.neighs) |->
                      weighted_close_neighbours.neighs[i].weight]) = RatInt(1)

\* C5: the lower-corner index of every axis lies in [0, len(axis) - 2].
C5_IndexInRange ==
    pc = "weighted" =>
        \A par \in DOMAIN grid :
            /\ 0 <= idx_neigh(binary_to_match, grid)[par]
            /\ idx_neigh(binary_to_match, grid)[par] <= Len(grid[par]) - 2

\* C6: the nearest-point strategy returns one neighbour of weight 1 holding, on each
\* axis, the sample of lowest index among those closest to the query value.
C6_NearestPerAxis ==
    pc = "nearest" =>
        /\ closest_neighbour.weight = RatInt(1)
        /\ DOMAIN closest_neighbour.val = DOMAIN binary_to_match.val
        /\ \A par \in DOMAIN grid :
              \E i \in 1..Len(grid[par]) :
                 /\ closest_neighbour.val[par] = grid[par][i]
                 /\ \A k \in 1..Len(grid[par]) :
                       Abs(grid[par][i] - binary_to_match.val[par])
                           <= Abs(grid[par][k] - binary_to_match.val[par])
                 /\ \A k \in 1..(i - 1) :
                       Abs(grid[par][k] - binary_to_match.val[par])
                           > Abs(grid[par][i] - binary_to_match.val[par])

\* a query with two equally close samples on some axis
C6_Witness ==
    /\ pc = "nearest"
    /\ \E par \in DOMAIN grid : \E i, k \in 1..Len(grid[par]) :
          /\ i < k
          /\ closest_neighbour.val[par] = grid[par][i]
          /\ Abs(grid[par][i] - binary_to_match.val[par])
                = Abs(grid[par][k] - binary_to_match.val[par])

\* the squared distance of a catalog row to a coordinate
SqDist(row, c) ==
    (row.m1i - c.val["m1i"]) * (row.m1i - c.val["m1i"])
        + (row.ei - c.val["ei"]) * (row.ei - c.val["ei"])

\* C7: run resolution returns the identifier of a row whose squared distance to the
\* coordinate is at most that of every row of the catalog.
C7_ResolveMinimum ==
    pc = "resolved" =>
        \E i \in 1..Len(mesa_rows) :
            /\ mesa_rows[i].run_name = run_name
            /\ \A k \in 1..Len(mesa_rows) :
                  SqDist(mesa_rows[i], closest_neighbour) <= SqDist(mesa_rows[k], closest_neighbour)

\* the catalog's first row is strictly farther than the row resolved
C7_Witness ==
    /\ pc = "resolved"
    /\ Len(mesa_rows) >= 2
    /\ mesa_rows[1].run_name # run_name
    /\ \E i \in 2..Len(mesa_rows) :
          /\ mesa_rows[i].run_name = run_name
          /\ SqDist(mesa_rows[i], closest_neighbour) < SqDist(mesa_rows[1], closest_neighbour)

\* the query lies on a sample of every axis
OnSamples ==
    \A par \in DOMAIN grid : \E i \in 1..Len(grid[par]) : grid[par][i] = binary_to_match.val[par]

\* the largest deviation the NZERO substitution can cause over D dimensions
EpsilonTerm == RatMul(RatInt(2 * Cardinality(DOMAIN grid)), NZERO)

\* C8: a query on a sample of every axis gets weight 1 on the corner equal to it and
\* weight 0 on every other corner, up to the NZERO terms.
C8_OnSampleWeights ==
    (pc = "weighted" /\ OnSamples) =>
        /\ weighted_close_neighbours.status = "ok"
        /\ \A i \in 1..Len(weighted_close_neighbours.neighs) :
              LET n == weighted_close_neighbours.neighs[i]
              IN  IF n.val = binary_to_match.val
                  THEN RatLt(RatAbs(RatSub(n.weight, RatInt(1))), EpsilonTerm)
                  ELSE RatLt(RatAbs(n.weight), EpsilonTerm)
        /\ \E i \in 1..Len(weighted_close_neighbours.neighs) :
              weighted_close_neighbours.neighs[i].val = binary_to_match.val

\* C9: with an empty catalog the pass aborts at its first resolution; no run is
\* credited and no row reaches the sink.
C9_EmptyCatalogFatal ==
    [][mesa_rows = <<>> =>
         /\ pc = "credit" => pc' = "aborted"
         /\ results' = NoResults
         /\ db' = NoDb
      ]_vars

C9_Witness ==
    /\ mesa_rows = <<>>
    /\ pc = "aborted"
    /\ error = "IndexError"
    /\ weighted_close_neighbours.status = "ok"

\* the rows one pass writes
RowsOf(res) == [i \in 1..Len(res.run_name) |-> <<res.run_name[i], res.weight[i]>>]

\* C10: after an interrupt the sink holds none of the pass's rows or all of them.
C10_NoPartialPersistence ==
    (pc = "aborted" /\ error = "SystemExit") =>
        /\ db.pending = <<>>
        /\ db.committed = <<>> \/ db.committed = RowsOf(results)

\* interrupted between two inserts
C10_Witness ==
    /\ pc = "aborted"
    /\ error = "SystemExit"
    /\ 0 < wj
    /\ wj < Len(results.run_name)

\* the header names every dimension column
HeaderComplete == \A i \in 1..Len(names_to_match) :
                      \E k \in 1..Len(compas_header) : compas_header[k] = names_to_match[i]

\* C11: when the header misses or misnames a dimension column the pass aborts for
\* every population: it never reaches the sink, and no run is credited.
C11_BadHeaderAborts ==
    ~HeaderComplete =>
        /\ pc \notin {"write", "close", "done"}
        /\ results = NoResults
        /\ db = NoDb

\* for a population with a member the pass does abort, without a credit
C11_NonEmptyAborts ==
    (~HeaderComplete /\ data # <<>>) =>
        /\ pc \notin {"write", "close", "done"}
        /\ results = NoResults
        /\ db = NoDb

\* the fractional distance of the query to corner idx on key number j: |q - corner| over
\* the width of the cell
FracDist(binary, g, idxn, idx, j) ==
    LET par == binary.keys[j]
    IN  Rat(Abs(binary.val[par] - PyIndex(g[par], idxn[par] + idx[j])),
            Abs(PyIndex(g[par], idxn[par] + 1) - PyIndex(g[par], idxn[par])))

\* corner a is at least as close to the query as corner b on every dimension
CloserOrEqual(binary, g, idxn, a, b) ==
    \A j \in 1..Len(binary.keys) :
        ~RatLt(FracDist(binary, g, idxn, b, j), FracDist(binary, g, idxn, a, j))

\* for corners number a and b of the cell: a closer on every dimension has the weights
\* at least b's
CloserWeighsMore(a, b) ==
    LET idxn == idx_neigh(binary_to_match, grid)
        m    == mesh(Cardinality(DOMAIN grid))
    IN  CloserOrEqual(binary_to_match, grid, idxn, m[a], m[b]) =>
            /\ ~RatLt(raw_weight(binary_to_match, grid, idxn, m[a]).v,
                      raw_weight(binary_to_match, grid, idxn, m[b]).v)
            /\ ~RatLt(weighted_close_neighbours.neighs[a].weight,
                      weighted_close_neighbours.neighs[b].weight)

\* C12: of two corners of the enumerated cell, one whose fractional distance is at most
\* the other's on every dimension has a raw weight and a normalised weight at least
\* the other's.
C12_CloserCornerHeavier ==
    (pc = "weighted" /\ weighted_close_neighbours.status = "ok") =>
        \A a, b \in 1..Len(weighted_close_neighbours.neighs) : CloserWeighsMore(a, b)

\* the same, for queries whose lower-corner index is a sample of every axis
C12_InsideGrid ==
    (pc = "weighted" /\ weighted_close_neighbours.status = "ok"
        /\ \A par \in DOMAIN grid : idx_neigh(binary_to_match, grid)[par] >= 0) =>
        \A a, b \in 1..Len(weighted_close_neighbours.neighs) : CloserWeighsMore(a, b)
\* the run identifiers of a sequence of rows
NameSet(rows) == {rows[i][1] : i \in 1..Len(rows)}

\* no identifier twice among the rows
OneRowPerName(rows) == Cardinality(NameSet(rows)) = Len(rows)

\* C13: no run identifier appears twice in results.run_name, run_name and weight have
\* the same length, and the pass writes one row per distinct run identifier.
C13_KeyUniqueness ==
    /\ \A i, k \in 1..Len(results.run_name) :
          results.run_name[i] = results.run_name[k] => i = k
    /\ Len(results.run_name) = Len(results.weight)
    /\ OneRowPerName(db.pending)
    /\ pc \in {"close", "done"} =>
          /\ OneRowPerName(db.committed)
          /\ NameSet(db.committed) = {results.run_name[i] : i \in 1..Len(results.run_name)}

\* a finished weighted pass: the corners of its cells fell on two runs or more, some
\* run more than once, and each run has its row
C13_Witness ==
    /\ pc = "done"
    /\ interpolation_method = "weighted_neighbours"
    /\ di >= 2
    /\ Len(results.run_name) >= 2
    /\ Len(db.committed) = Len(results.run_name)
\* the query value of par lies on or above the first sample and below the last
InsideAxis(par) ==
    /\ grid[par][1] <= binary_to_match.val[par]
    /\ binary_to_match.val[par] < grid[par][Len(grid[par])]

\* C14: for every axis and every query value q with axis[0] <= q < axis[last], the
\* index i of the weighted strategy satisfies axis[i] <= q < axis[i+1].
C14_CellContainsQuery ==
    pc = "weighted" =>
        \A par \in DOMAIN grid :
            InsideAxis(par) =>
                LET i == idx_neigh(binary_to_match, grid)[par]
                IN  /\ 0 <= i
                    /\ i + 1 < Len(grid[par])
                    /\ grid[par][i + 1] <= binary_to_match.val[par]
                    /\ binary_to_match.val[par] < grid[par][i + 2]

\* one axis unevenly spaced with the query between two of its samples, and one axis
\* whose index was decremented
C14_Witness ==
    /\ pc = "weighted"
    /\ \E par \in DOMAIN grid :
          /\ InsideAxis(par)
          /\ Len(grid[par]) = 3
          /\ grid[par][2] - grid[par][1] # grid[par][3] - grid[par][2]
          /\ \A k \in 1..3 : grid[par][k] # binary_to_match.val[par]
    /\ \E par \in DOMAIN grid :
          /\ InsideAxis(par)
          /\ idx_neigh(binary_to_match, grid)[par]
                = argmin_abs(grid[par], binary_to_match.val[par]) - 1
\* C15: under the nearest-point strategy every member is matched and credits exactly
\* one run with weight 1 (given a catalog with a row); the weighted search does not
\* abort the pass.
C15_NearestOnly ==
    [][(interpolation_method = "nearest_neighbour" /\ error' # "SystemExit") =>
          /\ (pc = "loop" /\ di < Len(data)) => pc' = "credit"
          /\ (pc = "credit" /\ mesa_rows # <<>>) =>
                /\ pc' = "loop"
                /\ di' = di + 1
                /\ RatSum(results'.weight) = RatAdd(RatSum(results.weight), RatInt(1))
      ]_vars

\* the credit of a member that was matched, taken alone
C15_CreditIsOne ==
    [][(interpolation_method = "nearest_neighbour" /\ error' # "SystemExit"
          /\ pc = "credit" /\ mesa_rows # <<>>) =>
                /\ pc' = "loop"
                /\ di' = di + 1
                /\ RatSum(results'.weight) = RatAdd(RatSum(results.weight), RatInt(1))
      ]_vars
\* C16: construction succeeds for every argument; None and the empty string leave
\* interpolation_method = "nearest_neighbour", any other method is stored unchanged.
C16_DefaultMethod ==
    [][pc = "init" =>
          /\ pc' = "loop"
          /\ interpolation_method' =
                IF interpolation_method \in {None, ""} THEN "nearest_neighbour"
                ELSE interpolation_method
      ]_vars

\* the same for arguments that are strings
C16_StringArgument ==
    [][(pc = "init" /\ interpolation_method # None) =>
          /\ pc' = "loop"
          /\ interpolation_method' =
                IF interpolation_method = "" THEN "nearest_neighbour"
                ELSE interpolation_method
      ]_vars
====






